---- MODULE Spec2Model ----
(***************************************************************************)
(* Model of the pre-sales assistant's text pipeline (app.py): clean_text,  *)
(* split_into_chunks, generate_summary and find_answer.                    *)
(*                                                                         *)
(* A Python str is a sequence of elements [ch, rep].  An element with      *)
(* rep = 1 is the single character ch.  An element with ch = "a" and       *)
(* rep = n > 1 is the n-word string "a a ... a" (n copies of the letter    *)
(* "a" separated by single spaces); it keeps 250-word texts short.         *)
(***************************************************************************)
EXTENDS Integers, Sequences, FiniteSets

VARIABLES pc, text, max_words, fast_mode, chunks, i, summaries, combined,
          calls, ret, question

vars == <<pc, text, max_words, fast_mode, chunks, i, summaries, combined,
          calls, ret, question>>

\* ------------------------------------------------------------- strings

Ch(c) == [ch |-> c, rep |-> 1]

Words(n) == [ch |-> "a", rep |-> n]

\* A literal: the str whose characters are the given one-character strings.
Lit(cs) == [k \in 1..Len(cs) |-> Ch(cs[k])]

\* The characters str.strip() and str.split() treat as whitespace.
Whitespace == {" ", "\n"}

\* The characters of the class [.!?] of the sentence pattern.
SentenceEnd == {".", "!", "?"}

IsSpace(e) == e.ch \in Whitespace

RECURSIVE SumSeq(_)
SumSeq(ns) == IF ns = <<>> THEN 0 ELSE Head(ns) + SumSeq(Tail(ns))

\* s.strip()
strip(s) ==
    LET keep == {k \in 1..Len(s) : ~IsSpace(s[k])}
    IN  IF keep = {} THEN <<>>
        ELSE LET lo == CHOOSE k \in keep : \A m \in keep : k <= m
                 hi == CHOOSE k \in keep : \A m \in keep : k >= m
             IN  SubSeq(s, lo, hi)

\* len(s.split()): the number of maximal runs of non-whitespace characters.
WordCount(s) ==
    Cardinality({k \in 1..Len(s) :
                    ~IsSpace(s[k]) /\ (k = 1 \/ IsSpace(s[k - 1]))})
    + SumSeq([k \in 1..Len(s) |-> s[k].rep - 1])

\* sep.join(parts)
RECURSIVE join(_, _)
join(sep, parts) ==
    IF parts = <<>> THEN <<>>
    ELSE IF Len(parts) = 1 THEN parts[1]
    ELSE parts[1] \o sep \o join(sep, Tail(parts))

Space == <<Ch(" ")>>

Newline == <<Ch("\n")>>

\* Whether s[k] lies in a run of spaces that directly follows a
\* sentence-ending character: what the pattern (?<=[.!?]) + matches.
IsCut(s, k) ==
    /\ s[k].ch = " "
    /\ \E j \in 1..(k - 1) :
           /\ s[j].ch \in SentenceEnd
           /\ \A m \in (j + 1)..k : s[m].ch = " "

\* The n-th smallest member of a set of numbers.
Nth(S, n) == CHOOSE x \in S : Cardinality({y \in S : y < x}) = n - 1

\* re.split(r'(?<=[.!?]) +', s): the pieces of s between the matches of
\* the pattern, an empty last piece when s ends with a match.
re_split_sentences(s) ==
    LET cut == {k \in 1..Len(s) : IsCut(s, k)}
        starts == {k \in 1..(Len(s) + 1) :
                      k \notin cut /\ (k = 1 \/ (k - 1) \in cut)}
        PieceEnd(b) ==
            CHOOSE e \in (b - 1)..Len(s) :
                /\ \A m \in b..e : m \notin cut
                /\ e = Len(s) \/ (e + 1) \in cut
    IN  [p \in 1..Cardinality(starts) |->
            SubSeq(s, Nth(starts, p), PieceEnd(Nth(starts, p)))]

\* ------------------------------------------------------- split_into_chunks

\* A budget test that forgets the words already in the current chunk.
FitsBudget_NoRunningSum(current, sentence, budget) ==
    WordCount(strip(sentence)) <= budget

\* sum(len(s.split()) for s in current) + len(words) <= max_words
FitsBudget(current, sentence, budget) ==
    SumSeq([k \in 1..Len(current) |-> WordCount(current[k])])
        + WordCount(strip(sentence)) <= budget

\* chunks.append(" ".join(current).strip())
Flush(done, current) == Append(done, strip(join(Space, current)))

\* A loop exit that forgets the chunk still being filled.
FlushLast_Dropped(done, current) == done

\* if current: chunks.append(...)
FlushLast(done, current) ==
    IF current # <<>> THEN Flush(done, current) ELSE done

\* The for loop over the sentences, from sentence k on.
RECURSIVE ChunkLoop(_, _, _, _, _)
ChunkLoop(sentences, k, done, current, budget) ==
    IF k > Len(sentences) THEN FlushLast(done, current)
    ELSE LET sentence == sentences[k]
         IN  IF WordCount(strip(sentence)) = 0
             THEN ChunkLoop(sentences, k + 1, done, current, budget)
             ELSE IF FitsBudget(current, sentence, budget)
             THEN ChunkLoop(sentences, k + 1, done,
                            Append(current, strip(sentence)), budget)
             ELSE ChunkLoop(sentences, k + 1, Flush(done, current),
                            <<strip(sentence)>>, budget)

split_into_chunks(t, budget) ==
    ChunkLoop(re_split_sentences(t), 1, <<>>, <<>>, budget)

\* The atomic units of a text: its sentences that hold a word, stripped.
Units(t) ==
    LET ss == re_split_sentences(t)
        held == SelectSeq(ss, LAMBDA x : WordCount(strip(x)) > 0)
    IN  [k \in 1..Len(held) |-> strip(held[k])]

\* ------------------------------------------------------------- clean_text

\* str.lower() on the letters the model's texts use.
LowerCh(c) == IF c = "A" THEN "a" ELSE IF c = "B" THEN "b" ELSE c

lower(s) == [k \in 1..Len(s) |-> [ch |-> LowerCh(s[k].ch), rep |-> s[k].rep]]

\* The characters of one element: "a", then " a" for each further repetition.
RECURSIVE ExpandElem(_)
ExpandElem(e) ==
    IF e.rep <= 1 THEN <<Ch(e.ch)>>
    ELSE <<Ch(e.ch), Ch(" ")>> \o ExpandElem([ch |-> e.ch, rep |-> e.rep - 1])

\* A str character by character (every element with rep = 1).
RECURSIVE Expand(_)
Expand(s) == IF s = <<>> THEN <<>> ELSE ExpandElem(Head(s)) \o Expand(Tail(s))

\* sub in s
Contains(s, sub) ==
    LET e == Expand(s)
    IN  \E k \in 1..(Len(e) - Len(sub) + 1) :
            SubSeq(e, k, k + Len(sub) - 1) = sub

\* text.splitlines()
RECURSIVE splitlines(_)
splitlines(s) ==
    IF s = <<>> THEN <<>>
    ELSE LET nl == {k \in 1..Len(s) : s[k].ch = "\n"}
         IN  IF nl = {} THEN <<s>>
             ELSE LET b == CHOOSE k \in nl : \A m \in nl : k <= m
                  IN  <<SubSeq(s, 1, b - 1)>>
                      \o splitlines(SubSeq(s, b + 1, Len(s)))

\* ['cnn.com', 'gallery.com', 'ireport.com', 'visit', 'next week']
JunkMarkers ==
    { Lit(<<"c", "n", "n", ".", "c", "o", "m">>),
      Lit(<<"g", "a", "l", "l", "e", "r", "y", ".", "c", "o", "m">>),
      Lit(<<"i", "r", "e", "p", "o", "r", "t", ".", "c", "o", "m">>),
      Lit(<<"v", "i", "s", "i", "t">>),
      Lit(<<"n", "e", "x", "t", " ", "w", "e", "e", "k">>) }

IsJunk(line) == \E bad \in JunkMarkers : Contains(lower(line), bad)

\* The for loop over the lines, from line k on.
RECURSIVE CleanLoop(_, _, _, _)
CleanLoop(lines, k, cleaned, seen) ==
    IF k > Len(lines) THEN cleaned
    ELSE LET line == strip(lines[k])
         IN  IF line = <<>> \/ lower(line) \in seen \/ IsJunk(line)
             THEN CleanLoop(lines, k + 1, cleaned, seen)
             ELSE CleanLoop(lines, k + 1, Append(cleaned, line),
                            seen \cup {lower(line)})

clean_text(t) == join(Newline, CleanLoop(splitlines(t), 1, <<>>, {}))

\* ------------------------------------------------ inputs of the chunker

MaxTextLen == 6

MaxBudget == 2

TextChars == {"a", ".", " ", "\n"}

SmallTexts ==
    UNION {[1..n -> {Ch(c) : c \in TextChars}] : n \in 0..MaxTextLen}

\* Paragraphs of 40 words: one sentence without and with a final period,
\* two sentences, four sentences, and one naming a junk marker.
Paragraphs40 ==
    { <<Words(40)>>,
      <<Words(40), Ch(".")>>,
      <<Words(20), Ch("."), Ch(" "), Words(20), Ch(".")>>,
      <<Words(10), Ch("."), Ch(" "), Words(10), Ch("."), Ch(" "),
        Words(10), Ch("."), Ch(" "), Words(10), Ch(".")>>,
      <<Words(39), Ch(" ")>> \o Lit(<<"v", "i", "s", "i", "t", ".">>) }

\* What separates two paragraphs: a blank line, possibly after a space.
ParagraphBreaks == {Lit(<<"\n", "\n">>), Lit(<<" ", "\n", "\n">>)}

TwoParagraphTexts ==
    {p \o b \o q : p \in Paragraphs40, q \in Paragraphs40,
                   b \in ParagraphBreaks}

ChunkerInputs ==
    {[text |-> t, max_words |-> m] : t \in SmallTexts, m \in 1..MaxBudget}
    \cup {[text |-> t, max_words |-> 50] : t \in TwoParagraphTexts}

\* -------------------------------------------- the chunker's specification

ChunkInit ==
    /\ \E in \in ChunkerInputs : text = in.text /\ max_words = in.max_words
    /\ pc = "raw"
    /\ fast_mode = FALSE
    /\ chunks = <<>>
    /\ i = 0
    /\ summaries = <<>>
    /\ combined = <<>>
    /\ calls = <<>>
    /\ ret = <<>>
    /\ question = <<>>

\* full_text = clean_text(raw_text)
CleanText ==
    /\ pc = "raw"
    /\ text' = clean_text(text)
    /\ pc' = "cleaned"
    /\ UNCHANGED <<max_words, fast_mode, chunks, i, summaries, combined,
                   calls, ret, question>>

\* chunks = split_into_chunks(text, max_words)
SplitText ==
    /\ pc \in {"raw", "cleaned"}
    /\ chunks' = split_into_chunks(text, max_words)
    /\ pc' = "split"
    /\ UNCHANGED <<text, max_words, fast_mode, i, summaries, combined,
                   calls, ret, question>>

ChunkNext == CleanText \/ SplitText

ChunkSpec == ChunkInit /\ [][ChunkNext]_vars

\* ------------------------------------------------- claims on the chunker

\* C4: every chunk holds at most max_words words, unless it is one atomic
\* unit that alone holds more than max_words words.
C4_ChunkBudget ==
    pc = "split" =>
        \A k \in 1..Len(chunks) :
            \/ WordCount(chunks[k]) <= max_words
            \/ \E u \in 1..Len(Units(text)) :
                   /\ chunks[k] = Units(text)[u]
                   /\ WordCount(Units(text)[u]) > max_words

\* A split that produced a chunk that fills the budget and, after it, a
\* chunk that is one oversized unit.
C4_Witness ==
    /\ pc = "split"
    /\ \E j, k \in 1..Len(chunks) :
           /\ j < k
           /\ WordCount(chunks[j]) = max_words
           /\ WordCount(chunks[k]) > max_words

\* C5: the chunks joined by single spaces are the atomic units of the text
\* joined by single spaces: every unit once, in the order of the text.
C5_ChunkCoverage ==
    pc = "split" =>
        strip(join(Space, chunks)) = join(Space, Units(text))

\* A split into at least two chunks of a text of at least three units.
C5_Witness ==
    /\ pc = "split"
    /\ Len(chunks) >= 2
    /\ Len(Units(text)) >= 3

\* Whether cs groups the units us, in order, into runs of one or more whole
\* units, a unit above the budget always in a run of its own.
RECURSIVE IsGrouping(_, _, _)
IsGrouping(cs, us, budget) ==
    IF cs = <<>> THEN us = <<>>
    ELSE \E n \in 1..Len(us) :
            /\ cs[1] = join(Space, SubSeq(us, 1, n))
            /\ n > 1 => \A k \in 1..n : WordCount(us[k]) <= budget
            /\ IsGrouping(Tail(cs), SubSeq(us, n + 1, Len(us)), budget)

\* C10: every chunk is one or more whole consecutive atomic units, and a
\* unit above the budget is a chunk by itself, also as the first unit.
C10_WholeUnitChunks ==
    pc = "split" => IsGrouping(chunks, Units(text), max_words)

\* The paragraphs of a text whose paragraphs are single lines.
ParagraphsOf(t) ==
    LET ls == SelectSeq(splitlines(t), LAMBDA x : strip(x) # <<>>)
    IN  [k \in 1..Len(ls) |-> strip(ls[k])]

\* C7: two paragraphs of 40 words each and max_words = 50 give exactly two
\* chunks, the first paragraph and the second paragraph.
C7_TwoParagraphs ==
    (/\ pc = "split"
     /\ max_words = 50
     /\ Len(ParagraphsOf(text)) = 2
     /\ \A k \in 1..2 : WordCount(ParagraphsOf(text)[k]) = 40)
    => chunks = ParagraphsOf(text)

\* ------------------------------------------------------- generate_summary

\* def split_into_chunks(text, max_words=250)
DefaultMaxWords == 250

\* if fast_mode and len(chunks) > 4: chunks = chunks[:4]
FastModeChunks == 4

\* if len(combined.split()) < 300: return combined
RefineThreshold == 300

\* "The document is empty or could not be processed."
EmptyDocumentMessage ==
    <<Ch("The document is empty or could not be processed.")>>

\* A truncation that keeps every chunk.
Retained_All(cs, fast) == cs

\* The chunks kept for summarization.
Retained(cs, fast) ==
    IF fast /\ Len(cs) > FastModeChunks
    THEN SubSeq(cs, 1, FastModeChunks) ELSE cs

\* One invocation of the summarization capability, as the log keeps it.
Call(kind, idx, input, ok, output) ==
    [kind |-> kind, idx |-> idx, input |-> input, ok |-> ok,
     output |-> output]

\* What the capability returns when it succeeds: a summary of 100 words
\* or one of 199 words.
SummaryOutputs == {<<Words(100)>>, <<Words(199)>>}

MaxSentences == 5

Sentence(n) == <<Words(n), Ch(".")>>

\* Texts of up to MaxSentences equal sentences: of 100 words (two to a
\* chunk) and of 130 words (one to a chunk); texts of two or more
\* sentences of 251 words (above the budget); texts of whitespace only.
SummaryTexts ==
    {join(Space, [k \in 1..c |-> Sentence(n)]) :
        n \in {100, 130}, c \in 0..MaxSentences}
    \cup {join(Space, [k \in 1..c |-> Sentence(251)]) :
              c \in 2..MaxSentences}
    \cup {Lit(<<" ">>), Lit(<<"\n">>), Lit(<<" ", "\n", " ">>)}

\* split_into_chunks(text) with its default budget, tabulated over the texts.
DefaultChunks ==
    [t \in SummaryTexts |-> split_into_chunks(t, DefaultMaxWords)]

Init ==
    /\ text \in SummaryTexts
    /\ fast_mode \in BOOLEAN
    /\ max_words = DefaultMaxWords
    /\ pc = "start"
    /\ chunks = <<>>
    /\ i = 0
    /\ summaries = <<>>
    /\ combined = <<>>
    /\ calls = <<>>
    /\ ret = <<>>
    /\ question = <<>>

\* An entry that summarizes an empty chunk sequence too.
Start_NoEmptyCheck ==
    /\ pc = "start"
    /\ chunks' = Retained(DefaultChunks[text], fast_mode)
    /\ pc' = "loop"
    /\ i' = 1
    /\ UNCHANGED <<text, max_words, fast_mode, summaries, combined, calls,
                   ret, question>>

\* chunks = split_into_chunks(text); the empty-document return; the
\* fast-mode truncation.
Start ==
    /\ pc = "start"
    /\ LET cs == DefaultChunks[text]
       IN  IF cs = <<>>
           THEN /\ ret' = EmptyDocumentMessage
                /\ pc' = "done"
                /\ UNCHANGED <<chunks, i>>
           ELSE /\ chunks' = Retained(cs, fast_mode)
                /\ pc' = "loop"
                /\ i' = 1
                /\ UNCHANGED ret
    /\ UNCHANGED <<text, max_words, fast_mode, summaries, combined, calls,
                   question>>

\* The capability summarizes chunk i: summaries.append(summary_text).
SummarizeChunk ==
    /\ pc = "loop"
    /\ i <= Len(chunks)
    /\ \E out \in SummaryOutputs :
           /\ calls' = Append(calls, Call("chunk", i, chunks[i], TRUE, out))
           /\ summaries' = Append(summaries, out)
    /\ i' = i + 1
    /\ UNCHANGED <<pc, text, max_words, fast_mode, chunks, combined, ret,
                   question>>

\* A failure of the capability that leaves generate_summary.
SummarizeChunkFails_Propagates ==
    /\ pc = "loop"
    /\ i <= Len(chunks)
    /\ calls' = Append(calls, Call("chunk", i, chunks[i], FALSE, <<>>))
    /\ pc' = "raised"
    /\ UNCHANGED <<text, max_words, fast_mode, chunks, i, summaries,
                   combined, ret, question>>

\* A failure of the capability that ends the loop over the chunks.
SummarizeChunkFails_Breaks ==
    /\ pc = "loop"
    /\ i <= Len(chunks)
    /\ calls' = Append(calls, Call("chunk", i, chunks[i], FALSE, <<>>))
    /\ summaries' = Append(summaries, <<>>)
    /\ i' = Len(chunks) + 1
    /\ UNCHANGED <<pc, text, max_words, fast_mode, chunks, combined, ret,
                   question>>

\* The capability fails on chunk i: except Exception: summaries.append("").
SummarizeChunkFails ==
    /\ pc = "loop"
    /\ i <= Len(chunks)
    /\ calls' = Append(calls, Call("chunk", i, chunks[i], FALSE, <<>>))
    /\ summaries' = Append(summaries, <<>>)
    /\ i' = i + 1
    /\ UNCHANGED <<pc, text, max_words, fast_mode, chunks, combined, ret,
                   question>>

\* A length test that returns a combined summary of exactly 300 words.
Combine_AtMost ==
    /\ pc = "loop"
    /\ i > Len(chunks)
    /\ combined' = strip(join(Space, summaries))
    /\ IF WordCount(combined') <= RefineThreshold
       THEN ret' = combined' /\ pc' = "done"
       ELSE pc' = "refine" /\ UNCHANGED ret
    /\ UNCHANGED <<text, max_words, fast_mode, chunks, i, summaries, calls,
                   question>>

\* combined = " ".join(summaries).strip(); the return of a short one.
Combine ==
    /\ pc = "loop"
    /\ i > Len(chunks)
    /\ combined' = strip(join(Space, summaries))
    /\ IF WordCount(combined') < RefineThreshold
       THEN ret' = combined' /\ pc' = "done"
       ELSE pc' = "refine" /\ UNCHANGED ret
    /\ UNCHANGED <<text, max_words, fast_mode, chunks, i, summaries, calls,
                   question>>

\* The capability refines the combined summary: return summary_text.
Refine ==
    /\ pc = "refine"
    /\ \E out \in SummaryOutputs :
           /\ calls' = Append(calls, Call("refine", 0, combined, TRUE, out))
           /\ ret' = out
    /\ pc' = "done"
    /\ UNCHANGED <<text, max_words, fast_mode, chunks, i, summaries,
                   combined, question>>

\* The capability fails on the combined summary: return combined.
RefineFails ==
    /\ pc = "refine"
    /\ calls' = Append(calls, Call("refine", 0, combined, FALSE, <<>>))
    /\ ret' = combined
    /\ pc' = "done"
    /\ UNCHANGED <<text, max_words, fast_mode, chunks, i, summaries,
                   combined, question>>

Next ==
    \/ Start
    \/ SummarizeChunk
    \/ SummarizeChunkFails
    \/ Combine
    \/ Refine
    \/ RefineFails

Spec == Init /\ [][Next]_vars

\* Every call of the capability returns or fails, and the interpreter runs
\* generate_summary on to its return.
FairSpec == Spec /\ WF_vars(Next)

\* ------------------------------------------- claims on generate_summary

ChunkCalls == SelectSeq(calls, LAMBDA c : c.kind = "chunk")

RefineCalls == SelectSeq(calls, LAMBDA c : c.kind = "refine")

\* The chunk sequence of the text, before any truncation.
AllChunks == DefaultChunks[text]

\* C1: whatever calls of the capability fail, generate_summary never ends
\* in a propagated failure and always reaches its return.
C1_AlwaysReturns == [](pc # "raised") /\ <>(pc = "done")

\* A return after a failed chunk call and a failed refinement call.
C1_Witness ==
    /\ pc = "done"
    /\ \E k \in 1..Len(calls) : calls[k].kind = "chunk" /\ ~calls[k].ok
    /\ \E k \in 1..Len(calls) : calls[k].kind = "refine" /\ ~calls[k].ok

\* The refinement rule for a combined string c: below 300 words c is
\* returned and no refinement call is made; from 300 words on exactly one
\* refinement call is made, on c, and its output is returned, or c when it
\* fails.
RefinementRule(c) ==
    IF WordCount(c) < RefineThreshold
    THEN ret = c /\ RefineCalls = <<>>
    ELSE /\ Len(RefineCalls) = 1
         /\ RefineCalls[1].input = c
         /\ ret = IF RefineCalls[1].ok THEN RefineCalls[1].output ELSE c

\* C2 as stated: the rule holds of the space-joined per-chunk outputs.
C2_RefinementOfJoined ==
    (pc = "done" /\ AllChunks # <<>>) =>
        RefinementRule(join(Space, summaries))

\* C2 as amended: the rule holds of the space-joined per-chunk outputs
\* with the whitespace at both ends removed.
C2_RefinementOfStripped ==
    (pc = "done" /\ AllChunks # <<>>) =>
        RefinementRule(strip(join(Space, summaries)))

\* A return of a combined summary of exactly 300 words after a refinement
\* that failed, the first chunk call having failed too.
C2_Witness ==
    /\ pc = "done"
    /\ summaries # <<>> /\ summaries[1] = <<>>
    /\ WordCount(join(Space, summaries)) = RefineThreshold
    /\ Len(RefineCalls) = 1 /\ ~RefineCalls[1].ok
    /\ ret = strip(join(Space, summaries))

\* C3: in fast mode on a text of more than 4 chunks the per-chunk calls
\* are made on the first 4 chunks, in order, and on no later chunk.
C3_FastModeFirstFour ==
    (fast_mode /\ Len(AllChunks) > FastModeChunks) =>
        /\ \A k \in 1..Len(ChunkCalls) :
               /\ ChunkCalls[k].idx <= FastModeChunks
               /\ ChunkCalls[k].input = AllChunks[ChunkCalls[k].idx]
        /\ pc = "done" =>
               [k \in 1..Len(ChunkCalls) |-> ChunkCalls[k].input]
                   = SubSeq(AllChunks, 1, FastModeChunks)

\* A fast-mode return on a text of more than 4 chunks.
C3_Witness ==
    /\ pc = "done"
    /\ fast_mode
    /\ Len(AllChunks) > FastModeChunks
    /\ Len(ChunkCalls) = FastModeChunks

\* C8: a text of zero chunks returns the "empty document" message, which
\* is not the empty string, and no call of the capability is made.
C8_EmptyDocument ==
    (pc = "done" /\ AllChunks = <<>>) =>
        /\ ret = EmptyDocumentMessage
        /\ ret # <<>>
        /\ calls = <<>>

\* A return on a text of whitespace only.
C8_Witness ==
    /\ pc = "done"
    /\ text # <<>>
    /\ AllChunks = <<>>
    /\ ret = EmptyDocumentMessage

\* C9: the per-chunk calls are made one per retained chunk in chunk order,
\* a failed one leaving an empty string and the later ones still made; a
\* refinement call is the last call and made only after all of them; the
\* calls of a finished run number the retained chunks, or one more.
C9_SequentialCalls ==
    /\ \A k \in 1..Len(ChunkCalls) :
           /\ calls[k] = ChunkCalls[k]
           /\ calls[k].idx = k
           /\ calls[k].input = chunks[k]
           /\ summaries[k] = IF calls[k].ok THEN calls[k].output ELSE <<>>
    /\ Len(summaries) = Len(ChunkCalls)
    /\ Len(RefineCalls) <= 1
    /\ RefineCalls # <<>> => Len(ChunkCalls) = Len(chunks)
    /\ (pc = "done" /\ AllChunks # <<>>) =>
           /\ Len(ChunkCalls) = Len(chunks)
           /\ Len(calls) \in {Len(chunks), Len(chunks) + 1}

\* A finished run whose first chunk call failed and whose last chunk call
\* succeeded, followed by a refinement call.
C9_Witness ==
    /\ pc = "done"
    /\ Len(chunks) >= 3
    /\ ~calls[1].ok
    /\ calls[Len(chunks)].ok
    /\ Len(calls) = Len(chunks) + 1

\* ------------------------------------------------------------ find_answer

\* The characters of the model's texts that \w does not match.
NonWordChars == Whitespace \cup SentenceEnd \cup {","}

IsWordChar(e) == e.ch \notin NonWordChars

\* set(re.findall(r'\w+', s)): the maximal runs of word characters of s.
Tokens(s) ==
    LET e == Expand(s)
    IN  {SubSeq(e, a, b) : <<a, b>> \in
            {r \in (1..Len(e)) \X (1..Len(e)) :
                /\ r[1] <= r[2]
                /\ \A m \in r[1]..r[2] : IsWordChar(e[m])
                /\ r[1] = 1 \/ ~IsWordChar(e[r[1] - 1])
                /\ r[2] = Len(e) \/ ~IsWordChar(e[r[2] + 1])}}

\* len(question_words.intersection(chunk_words))
Overlap(q, chunk) ==
    Cardinality(Tokens(lower(q)) \cap Tokens(lower(chunk)))

\* A comparison that lets a later chunk of equal score replace the best.
Better_OrEqual(n, max_matches) == n >= max_matches

\* if len(common_words) > max_matches
Better(n, max_matches) == n > max_matches

\* The "Sorry, I couldn't find the answer in the document." message.
NotFoundMessage ==
    <<Ch("Sorry, I couldn't find the answer in the document.")>>

\* The for loop over the chunks, from chunk k on; best is <<>> for None and
\* <<chunk>> for a chunk.  The return is best_chunk or the message.
RECURSIVE AnswerLoop(_, _, _, _, _)
AnswerLoop(q, cs, k, best, max_matches) ==
    IF k > Len(cs)
    THEN IF best = <<>> \/ best[1] = <<>> THEN NotFoundMessage ELSE best[1]
    ELSE IF Better(Overlap(q, cs[k]), max_matches)
    THEN AnswerLoop(q, cs, k + 1, <<cs[k]>>, Overlap(q, cs[k]))
    ELSE AnswerLoop(q, cs, k + 1, best, max_matches)

find_answer(q, text_chunks) == AnswerLoop(q, text_chunks, 1, <<>>, 0)

\* ------------------------------------------------ the retriever's inputs

MaxChunks == 3

\* "", "a", "B", "a b", "b.A", "ab", "c"
AnswerChunkTexts ==
    { <<>>, Lit(<<"a">>), Lit(<<"B">>), Lit(<<"a", " ", "b">>),
      Lit(<<"b", ".", "A">>), Lit(<<"a", "b">>), Lit(<<"c">>) }

\* "", "A b", "b?", "ab a"
Questions ==
    { <<>>, Lit(<<"A", " ", "b">>), Lit(<<"b", "?">>),
      Lit(<<"a", "b", " ", "a">>) }

AnswerInit ==
    /\ question \in Questions
    /\ chunks \in UNION {[1..n -> AnswerChunkTexts] : n \in 0..MaxChunks}
    /\ pc = "ask"
    /\ text = <<>>
    /\ max_words = DefaultMaxWords
    /\ fast_mode = FALSE
    /\ i = 0
    /\ summaries = <<>>
    /\ combined = <<>>
    /\ calls = <<>>
    /\ ret = <<>>

\* answer = find_answer(question, text_chunks)
Answer ==
    /\ pc = "ask"
    /\ ret' = find_answer(question, chunks)
    /\ pc' = "answered"
    /\ UNCHANGED <<text, max_words, fast_mode, chunks, i, summaries,
                   combined, calls, question>>

AnswerNext == Answer

AnswerSpec == AnswerInit /\ [][AnswerNext]_vars

\* ------------------------------------------------- claims on find_answer

\* The greatest overlap of the question with a chunk, 0 without chunks.
MaxOverlap ==
    IF chunks = <<>> THEN 0
    ELSE LET all == {Overlap(question, chunks[k]) : k \in 1..Len(chunks)}
         IN  CHOOSE n \in all : \A m \in all : n >= m

\* C6: find_answer returns the earliest chunk whose overlap with the
\* question is the greatest over all chunks, and the "not found" message
\* exactly when every chunk's overlap is zero.
C6_EarliestBest ==
    pc = "answered" =>
        IF MaxOverlap = 0 THEN ret = NotFoundMessage
        ELSE /\ ret # NotFoundMessage
             /\ \E k \in 1..Len(chunks) :
                    /\ ret = chunks[k]
                    /\ Overlap(question, chunks[k]) = MaxOverlap
                    /\ \A j \in 1..(k - 1) :
                           Overlap(question, chunks[j]) < MaxOverlap

\* An answer that is the second of three chunks: the first overlaps less,
\* the third overlaps as much and is another text.
C6_Witness ==
    /\ pc = "answered"
    /\ Len(chunks) = 3
    /\ 0 < Overlap(question, chunks[1])
    /\ Overlap(question, chunks[1]) < Overlap(question, chunks[2])
    /\ Overlap(question, chunks[2]) = Overlap(question, chunks[3])
    /\ chunks[2] # chunks[3]
    /\ ret = chunks[2]

====
